---- MODULE Spec2Model ----
(***************************************************************************)
(* Model of scripts_analysis/run_metrics.py: the label aligner             *)
(* guided_relabel, segment_diffusion and the batch driver (__main__).      *)
(*                                                                         *)
(* Two specifications share the variables:                                 *)
(*   SpecRelabel  one call of guided_relabel on a bounded pair of maps;    *)
(*   SpecDriver   one run of the batch driver over a bounded file set.     *)
(*                                                                         *)
(* A label map is a record [shape |-> <<H, W>>, data |-> row-major cells]. *)
(* Every cell stands for a run of blk equal pixels of one row, so the map  *)
(* the code sees has H rows, W * blk columns and H * W * blk pixels. The   *)
(* run length lets a bounded model hold the pixel counts at which the      *)
(* int16 arithmetic of guided_relabel wraps.                               *)
(***************************************************************************)
EXTENDS Integers, Sequences, FiniteSets, TLC

VARIABLES
    \* ---- guided_relabel ----
    heap,                 \* the arrays alive during the call, by reference
    blk,                  \* pixels per cell (run length)
    rl_pc,                \* "call" | "returned" | "raised"
    ret,                  \* reference returned by guided_relabel, or "None"
    intersection_matrix,  \* local of guided_relabel (line 138)
    union_matrix,         \* local of guided_relabel (line 141)
    \* ---- batch driver ----
    pc,                   \* position of __main__
    dataset_name,         \* config.dataset_name
    hparams,              \* hparams, or Unbound when no branch assigned it
    nfiles,               \* lengths of the three sorted file lists
    image_idx,            \* loop variable of line 232
    entry_idx,            \* position in entity_tuples of the loop of line 250
    hashmap,              \* hashmap of the current file: key -> array
    loaded,               \* per file loaded so far: what happened to it
    metrics,              \* metrics[metric][entry]: the appended values
    printed               \* the summary blocks printed so far

rvars == <<heap, blk, rl_pc, ret, intersection_matrix, union_matrix>>
dvars == <<pc, dataset_name, hparams, nfiles, image_idx, entry_idx, hashmap,
           loaded, metrics, printed>>
vars == <<heap, blk, rl_pc, ret, intersection_matrix, union_matrix,
          pc, dataset_name, hparams, nfiles, image_idx, entry_idx, hashmap,
          loaded, metrics, printed>>

----------------------------------------------------------------------------
(* Bounds of the model.                                                    *)

\* Largest number of cells H * W of a label map.
MaxCells == 3

\* Run length of the large maps: two cells of one label make 32768 pixels.
BigBlk == 16384

\* Label values drawn for the cells.
Labels == {0, 1, 2}

\* Largest number of files in a result directory.
MaxFiles == 2

\* Largest height and width of the driver's label maps.
MaxDim == 2

\* Largest number of slices of a granularity stack.
MaxSlices == 1

----------------------------------------------------------------------------
(* Arithmetic helpers.                                                     *)

RECURSIVE Pow2(_)
Pow2(n) == IF n = 0 THEN 1 ELSE 2 * Pow2(n - 1)

\* Bits of np.int16.
Int16Bits == 16

\* Number of values of np.int16.
Int16Modulus == Pow2(Int16Bits)

\* Largest np.int16.
Int16Max == Pow2(Int16Bits - 1) - 1

\* Two's-complement wrap of x into the range of np.int16.
Wrap16(x) == ((x + Int16Max + 1) % Int16Modulus) - (Int16Max + 1)

Min(S) == CHOOSE x \in S : \A y \in S : x <= y

\* The elements of a finite set of integers in ascending order.
RECURSIVE SortedSeq(_)
SortedSeq(S) ==
    IF S = {} THEN <<>> ELSE <<Min(S)>> \o SortedSeq(S \ {Min(S)})

----------------------------------------------------------------------------
(* guided_relabel (lines 120-152).                                         *)

NoArray == [shape |-> <<>>, data |-> <<>>]

\* H * W as the code computes it: rows times columns of pixels.
NumPixels(a) == a.shape[1] * a.shape[2] * blk

\* np.unique: the distinct values of a map, ascending.
Unique(a) == SortedSeq({a.data[k] : k \in DOMAIN a.data})

\* One row of label_pred_vec / label_true_vec: (a.reshape(H * W) == i) as int16.
Indicator(a, i) == [k \in DOMAIN a.data |-> IF a.data[k] = i THEN 1 ELSE 0]

\* label_pred_vec / label_true_vec: one indicator row per distinct value.
IndicatorRows(a) ==
    LET u == Unique(a) IN [r \in DOMAIN u |-> Indicator(a, u[r])]

\* 1 - vec on an int16 array.
Complement(u) == [k \in DOMAIN u |-> Wrap16(1 - u[k])]

\* The sum of the products u[k] * v[k] over the first n cells.
RECURSIVE DotUpTo(_, _, _)
DotUpTo(u, v, n) ==
    IF n = 0 THEN 0 ELSE u[n] * v[n] + DotUpTo(u, v, n - 1)

\* One entry of np.matmul on int16 operands: the products are accumulated in
\* int16, so the sum over all pixels is taken modulo 2^16. The blk pixels of
\* a cell contribute the same product each.
Dot16(u, v) == Wrap16(blk * DotUpTo(u, v, Len(u)))

\* np.matmul(x, y.T) for two stacks of rows.
MatMulT(x, y) == [r \in DOMAIN x |-> [c \in DOMAIN y |-> Dot16(x[r], y[c])]]

\* The Python int H * W minus an int16 matrix entry. A scalar that fits int16
\* keeps the int16 result; a larger one is promoted to int32 by the
\* value-based casting of NumPy 1.x.
ScalarMinus(n, x) == IF n <= Int16Max THEN Wrap16(n - x) ELSE n - x

\* NumPy 2 casts the Python int to int16 and raises OverflowError instead.
ScalarOverflows(n) == n > Int16Max

IntersectionMatrix(p, t) == MatMulT(IndicatorRows(p), IndicatorRows(t))

UnionMatrix(p, t) ==
    LET pv == IndicatorRows(p)
        tv == IndicatorRows(t)
        n  == NumPixels(p)
        both_false == MatMulT([r \in DOMAIN pv |-> Complement(pv[r])],
                              [c \in DOMAIN tv |-> Complement(tv[c])])
    IN  [r \in DOMAIN both_false |->
            [c \in DOMAIN both_false[r] |-> ScalarMinus(n, both_false[r][c])]]

\* The base the denominators are split at, and the bound past which the
\* high parts alone decide the comparison.
SplitBase == Pow2(9)
SplitLimit == Pow2(17)

\* a / b < c / d for b, d > 0, |a|, |c| <= 2^15 and b, d < 2^17, that is
\* a * d < c * b, with the products split so that every intermediate value
\* stays within 32 bits.
QuotLess(a, b, c, d) ==
    LET hi == a * (d \div SplitBase) - c * (b \div SplitBase)
        lo == c * (b % SplitBase) - a * (d % SplitBase)
    IN  IF hi >= SplitLimit THEN FALSE
        ELSE IF hi <= 0 - SplitLimit THEN TRUE
        ELSE hi * SplitBase < lo

\* iou_matrix[i, a] < iou_matrix[i, b], both being intersection / union in
\* float64. Every union entry is positive and below 2^17, so two different
\* quotients differ by more than 2^-34 and the rounded quotients compare as
\* the exact ones do.
IouLess(im, um, i, a, b) == QuotLess(im[i][a], um[i][a], im[i][b], um[i][b])

\* np.argmax(iou_matrix[i, :]): the first column holding the row maximum.
ArgMax(im, um, i) ==
    Min({c \in DOMAIN im[i] : \A d \in DOMAIN im[i] : ~IouLess(im, um, i, c, d)})

\* The 0-based column number itself, not the label that stands in the column.
MatchedColumn(t, im, um, i) == ArgMax(im, um, i) - 1

\* np.unique(label_true)[np.argmax(iou_matrix[i, :])]
MatchedLabel(t, im, um, i) == Unique(t)[ArgMax(im, um, i)]

\* The distinct predicted labels with label 0 left out.
EnumLabelsNonZero(p) ==
    SortedSeq({p.data[k] : k \in DOMAIN p.data} \ {0})

\* enumerate(np.unique(label_pred)) of line 147: the i-th label uses row i.
EnumLabels(p) == Unique(p)

\* np.zeros_like(label_pred)
ZerosLike(a) == [shape |-> a.shape, data |-> [k \in DOMAIN a.data |-> 0]]

\* The loop of lines 147-150 applied to the zero-filled map z: every pixel
\* whose predicted label has a row is overwritten with the matched label.
Renumber(z, p, t, im, um) ==
    LET up    == EnumLabels(p)
        match == [i \in DOMAIN up |-> MatchedLabel(t, im, um, i)]
    IN  [shape |-> z.shape,
         data  |-> [k \in DOMAIN z.data |->
                       IF \E i \in DOMAIN up : up[i] = p.data[k]
                       THEN match[CHOOSE i \in DOMAIN up : up[i] = p.data[k]]
                       ELSE z.data[k]]]

\* The predicted map itself, written in place.
InPlaceRef == "label_pred"

\* The reference np.zeros_like hands back: a new array.
ZerosLikeRef == "renumbered_label_pred"

\* assert label_pred.shape == label_true.shape fails (line 127).
GuidedRelabelAssertFail ==
    /\ rl_pc = "call"
    /\ heap.label_pred.shape # heap.label_true.shape
    /\ rl_pc' = "raised"
    /\ UNCHANGED <<heap, blk, ret, intersection_matrix, union_matrix>>
    /\ UNCHANGED dvars

\* Line 141 under NumPy 2: H * W does not fit int16 and the subtraction raises.
GuidedRelabelScalarOverflow ==
    /\ rl_pc = "call"
    /\ heap.label_pred.shape = heap.label_true.shape
    /\ ScalarOverflows(NumPixels(heap.label_pred))
    /\ rl_pc' = "raised"
    /\ intersection_matrix' =
           IntersectionMatrix(heap.label_pred, heap.label_true)
    /\ UNCHANGED <<heap, blk, ret, union_matrix>>
    /\ UNCHANGED dvars

\* The call runs to its return statement (lines 127-152).
GuidedRelabel ==
    /\ rl_pc = "call"
    /\ heap.label_pred.shape = heap.label_true.shape
    /\ intersection_matrix' =
           IntersectionMatrix(heap.label_pred, heap.label_true)
    /\ union_matrix' = UnionMatrix(heap.label_pred, heap.label_true)
    /\ LET h1 == [heap EXCEPT ![ZerosLikeRef] = ZerosLike(heap.label_pred)]
       IN  heap' = [h1 EXCEPT ![ZerosLikeRef] =
                       Renumber(h1[ZerosLikeRef], h1.label_pred,
                                h1.label_true, intersection_matrix',
                                union_matrix')]
    /\ ret' = ZerosLikeRef
    /\ rl_pc' = "returned"
    /\ UNCHANGED blk
    /\ UNCHANGED dvars

\* The shapes H x W (in cells) of the bounded label maps.
Shapes ==
    {s \in (1..MaxCells) \X (1..MaxCells) : s[1] * s[2] <= MaxCells}

\* All label maps of shape s over Labels.
MapsOf(s) ==
    {[shape |-> s, data |-> d] : d \in [1..(s[1] * s[2]) -> Labels]}

\* The maps of shape s whose cells all carry one label.
FlatMapsOf(s) ==
    {[shape |-> s, data |-> [k \in 1..(s[1] * s[2]) |-> l]] : l \in Labels}

\* The pair of 4 x 4 maps of the end-to-end scenario.
ExamplePred ==
    [shape |-> <<4, 4>>,
     data  |-> <<1, 1, 2, 2,  1, 1, 2, 2,  3, 3, 0, 0,  3, 3, 0, 0>>]

ExampleTrue ==
    [shape |-> <<4, 4>>,
     data  |-> <<5, 5, 6, 6,  5, 5, 6, 6,  7, 7, 0, 0,  7, 7, 0, 0>>]

\* The variables of guided_relabel at rest, for the driver's specification.
RelabelIdle ==
    /\ heap = [label_pred |-> NoArray, label_true |-> NoArray,
               renumbered_label_pred |-> NoArray]
    /\ blk = 1
    /\ rl_pc = "idle"
    /\ ret = "None"
    /\ intersection_matrix = <<>>
    /\ union_matrix = <<>>

\* The driver's variables at rest, for the specification of guided_relabel.
DriverIdle ==
    /\ pc = "idle"
    /\ dataset_name = "none"
    /\ hparams = [bound |-> FALSE]
    /\ nfiles = <<0, 0, 0>>
    /\ image_idx = 0
    /\ entry_idx = 0
    /\ hashmap = <<>>
    /\ loaded = <<>>
    /\ metrics = <<>>
    /\ printed = <<>>

\* A call of guided_relabel about to start: two maps of one shape with any
\* labels, two maps of different shapes (whose cells the call never reads),
\* or the pair of the end-to-end scenario.
InitRelabel ==
    /\ rl_pc = "call"
    /\ ret = "None"
    /\ intersection_matrix = <<>>
    /\ union_matrix = <<>>
    /\ \/ /\ blk \in {1, BigBlk}
          /\ \E s \in Shapes :
                \/ \E p \in MapsOf(s) : \E t \in MapsOf(s) :
                      heap = [label_pred |-> p, label_true |-> t,
                              renumbered_label_pred |-> NoArray]
                \/ \E s2 \in Shapes \ {s} :
                      \E p \in FlatMapsOf(s) : \E t \in FlatMapsOf(s2) :
                          heap = [label_pred |-> p, label_true |-> t,
                                  renumbered_label_pred |-> NoArray]
       \/ /\ blk = 1
          /\ heap = [label_pred |-> ExamplePred, label_true |-> ExampleTrue,
                     renumbered_label_pred |-> NoArray]
    /\ DriverIdle

NextRelabel ==
    \/ GuidedRelabelAssertFail
    \/ GuidedRelabelScalarOverflow
    \/ GuidedRelabel

SpecRelabel == InitRelabel /\ [][NextRelabel]_vars

----------------------------------------------------------------------------
(* The batch driver (lines 169-299). An array of the driver is a record    *)
(* [shape |-> dimensions, content |-> what it holds]: the metrics and the  *)
(* extractor are collaborators, so only the shape of an array and the      *)
(* identity of its content matter here.                                    *)

Unbound == [bound |-> FALSE]

\* The assignments of lines 181-192 with a fallback branch added: an
\* unrecognized name gets the retina values.
HparamsWithDefault(name) ==
    IF name = "berkeley"
    THEN [bound |-> TRUE, is_binary |-> FALSE,
          min_frame_ratio |-> <<1, 2>>, min_area_ratio |-> <<1, 500>>]
    ELSE [bound |-> TRUE, is_binary |-> TRUE,
          min_frame_ratio |-> <<1, 2>>, min_area_ratio |-> <<1, 200>>]

\* Lines 181-192: hparams is assigned for 'retina' and for 'berkeley' and
\* stays unbound for every other name. A ratio n / d is the pair <<n, d>>.
HparamsFor(name) ==
    IF name = "retina"
    THEN [bound |-> TRUE, is_binary |-> TRUE,
          min_frame_ratio |-> <<1, 2>>, min_area_ratio |-> <<1, 200>>]
    ELSE IF name = "berkeley"
    THEN [bound |-> TRUE, is_binary |-> FALSE,
          min_frame_ratio |-> <<1, 2>>, min_area_ratio |-> <<1, 500>>]
    ELSE Unbound

\* entity_tuples with the two k-means entries exchanged.
EntityTuplesSwapped ==
    << [entry |-> "random", p1 |-> "label_true", p2 |-> "label_random"],
       [entry |-> "watershed", p1 |-> "label_true", p2 |-> "label_watershed"],
       [entry |-> "felzenszwalb", p1 |-> "label_true",
        p2 |-> "label_felzenszwalb"],
       [entry |-> "ours (kmeans, binary)", p1 |-> "label_true",
        p2 |-> "seg_kmeans"],
       [entry |-> "ours (kmeans, multiclass)", p1 |-> "label_true",
        p2 |-> "label_kmeans"],
       [entry |-> "ours (diffusion, multiclass)", p1 |-> "label_true",
        p2 |-> "label_diffusion"],
       [entry |-> "ours (diffusion, binary)", p1 |-> "label_true",
        p2 |-> "seg_diffusion"] >>

\* entity_tuples (lines 211-219).
EntityTuples ==
    << [entry |-> "random", p1 |-> "label_true", p2 |-> "label_random"],
       [entry |-> "watershed", p1 |-> "label_true", p2 |-> "label_watershed"],
       [entry |-> "felzenszwalb", p1 |-> "label_true",
        p2 |-> "label_felzenszwalb"],
       [entry |-> "ours (kmeans, multiclass)", p1 |-> "label_true",
        p2 |-> "label_kmeans"],
       [entry |-> "ours (kmeans, binary)", p1 |-> "label_true",
        p2 |-> "seg_kmeans"],
       [entry |-> "ours (diffusion, multiclass)", p1 |-> "label_true",
        p2 |-> "label_diffusion"],
       [entry |-> "ours (diffusion, binary)", p1 |-> "label_true",
        p2 |-> "seg_diffusion"] >>

EntryNames == {EntityTuples[i].entry : i \in DOMAIN EntityTuples}

MetricNames == {"dice", "ssim", "ergas", "rmse"}

\* metrics as built by lines 221-230: an empty list per metric and entry.
EmptyMetrics == [m \in MetricNames |-> [e \in EntryNames |-> <<>>]]

\* The keys whose array may come with a shape other than label_true's.
OddKeys == {"label_random", "label_watershed", "label_felzenszwalb",
            "label_kmeans", "seg_kmeans"}

\* What the three archives of one file index may hold.
\*   shape   the shape of the ground-truth label map
\*   stack   the shape of labels_diffusion
\*   differ  which array of which archive differs from the baseline
\*           archive's, if any
\*   odd     the predicted map whose shape is not label_true's, if any
StackShapes(s) ==
    UNION {{<<B, s[1], s[2]>>, <<B, s[2], s[1]>>, <<B, s[1] * s[2]>>,
            <<B, s[1], s[2] + 1>>} : B \in 0..MaxSlices}

FileContents ==
    UNION {[shape  : {s},
            stack  : StackShapes(s),
            differ : {"none", "image_kmeans", "image_diffusion",
                      "label_kmeans", "label_diffusion"},
            odd    : OddKeys \cup {"none"}] :
           s \in (1..MaxDim) \X (1..MaxDim)}

Arr(shape, content) == [shape |-> shape, content |-> content]

\* The shape of the predicted map stored under key k.
PredShape(f, k) ==
    IF f.odd = k THEN <<f.shape[1], f.shape[2] + 1>> ELSE f.shape

\* load_baselines (lines 22-30)
LoadBaselines(f) ==
    [image              |-> Arr(f.shape, "image"),
     label_true         |-> Arr(f.shape, "label"),
     label_random       |-> Arr(PredShape(f, "label_random"), "random"),
     label_watershed    |-> Arr(PredShape(f, "label_watershed"), "watershed"),
     label_felzenszwalb |-> Arr(PredShape(f, "label_felzenszwalb"),
                                "felzenszwalb")]

\* load_kmeans (lines 33-41)
LoadKmeans(f) ==
    [image        |-> Arr(f.shape, IF f.differ = "image_kmeans"
                                   THEN "other image" ELSE "image"),
     label_true   |-> Arr(f.shape, IF f.differ = "label_kmeans"
                                   THEN "other label" ELSE "label"),
     latent       |-> Arr(<<f.shape[1] * f.shape[2]>>, "latent"),
     label_kmeans |-> Arr(PredShape(f, "label_kmeans"), "kmeans"),
     seg_kmeans   |-> Arr(PredShape(f, "seg_kmeans"), "kmeans seg")]

\* load_diffusion (lines 44-53)
LoadDiffusion(f) ==
    [image      |-> Arr(f.shape, IF f.differ = "image_diffusion"
                                 THEN "other image" ELSE "image"),
     recon      |-> Arr(f.shape, "recon"),
     label_true |-> Arr(f.shape, IF f.differ = "label_diffusion"
                                 THEN "other label" ELSE "label"),
     latent     |-> Arr(<<f.shape[1] * f.shape[2]>>, "latent"),
     granularities_diffusion |-> Arr(<<f.stack[1]>>, "granularities"),
     labels_diffusion        |-> Arr(f.stack, "stack")]

\* combine_hashmaps (lines 56-61): a later argument overwrites the keys it
\* shares with an earlier one.
CombineHashmaps(a, b, c) ==
    [k \in DOMAIN a \cup DOMAIN b \cup DOMAIN c |->
        IF k \in DOMAIN c THEN c[k]
        ELSE IF k \in DOMAIN b THEN b[k]
        ELSE a[k]]

RECURSIVE Prod(_)
Prod(s) == IF s = <<>> THEN 1 ELSE Head(s) * Prod(Tail(s))

\* A reshape that accepts every stack.
ReshapeAlways(shape, target) == TRUE

\* ndarray.reshape raises unless the element counts agree.
ReshapeOk(shape, target) == Prod(shape) = Prod(target)

\* most_persistent_structures: a label map over the H x W image.
MostPersistentStructures(stack, min_frame_ratio, min_area_ratio) ==
    Arr(<<stack.shape[2], stack.shape[3]>>, "persistent")

\* point_hint_seg: a binary map over the pixels of label_true.
PointHintSeg(label_pred, label_true) == Arr(label_true.shape, "hint seg")

\* segment_diffusion (lines 64-84): the outcome of the call.
SegmentDiffusion(hm, hp) ==
    LET label_true == hm.label_true
        H == label_true.shape[1]
        W == label_true.shape[2]
        B == hm.labels_diffusion.shape[1]
    IN  IF ~ReshapeOk(hm.labels_diffusion.shape, <<B, H, W>>)
        THEN [raised |-> TRUE, handed |-> FALSE, hashmap |-> hm]
        ELSE LET reshaped == Arr(<<B, H, W>>, hm.labels_diffusion.content)
                 persistent_label ==
                     MostPersistentStructures(reshaped, hp.min_frame_ratio,
                                              hp.min_area_ratio)
                 seg == PointHintSeg(persistent_label, label_true)
             IN  [raised  |-> FALSE,
                  handed  |-> TRUE,
                  hashmap |->
                      [k \in DOMAIN hm \cup {"seg_diffusion",
                                              "label_diffusion"} |->
                          IF k = "seg_diffusion" THEN seg
                          ELSE IF k = "label_diffusion" THEN persistent_label
                          ELSE hm[k]]]

\* dice_coeff, range_aware_ssim, ergas and rmse on two maps: a pair of
\* different shapes is refused.
MetricRaises(a, b) == a.shape # b.shape

\* The assert of guided_relabel (line 127) as the driver meets it.
RelabelRaises(label_pred, label_true) == label_pred.shape # label_true.shape

\* list.append that drops what the list held.
AppendFresh(acc, v) == <<v>>

\* list.append (lines 252-273)
AppendValue(acc, v) == Append(acc, v)

\* The accumulators after the appends of one entry (lines 251-273): the value
\* a metric yields for a file is named by the file's index.
AppendMetrics(ms, entry, binary, v) ==
    [m \in MetricNames |->
        IF m = "dice" /\ ~binary THEN ms[m]
        ELSE [ms[m] EXCEPT ![entry] = AppendValue(ms[m][entry], v)]]

\* One summary block (lines 276-281, 283-287, 289-293, 295-299): the header
\* and, per entry of entity_tuples, the list its mean and error come from.
Block(m) ==
    [metric |-> m,
     lines  |-> [i \in DOMAIN EntityTuples |->
                    [entry |-> EntityTuples[i].entry,
                     over  |-> metrics[m][EntityTuples[i].entry]]]]

Fail ==
    /\ pc' = "failed"
    /\ UNCHANGED <<dataset_name, nfiles, image_idx, entry_idx, printed>>

\* Lines 181-192.
SelectHparams ==
    /\ pc = "start"
    /\ hparams' = HparamsFor(dataset_name)
    /\ pc' = "list"
    /\ UNCHANGED <<dataset_name, nfiles, image_idx, entry_idx, hashmap,
                   loaded, metrics, printed>>
    /\ UNCHANGED rvars

\* Lines 194-230: the three sorted file lists, the two asserts on their
\* lengths, entity_tuples and the empty accumulators.
ListFiles ==
    /\ pc = "list"
    /\ IF nfiles[1] # nfiles[2] \/ nfiles[1] # nfiles[3]
       THEN /\ Fail
            /\ UNCHANGED <<hparams, hashmap, loaded, metrics>>
       ELSE /\ metrics' = EmptyMetrics
            /\ pc' = "loop"
            /\ UNCHANGED <<dataset_name, hparams, nfiles, image_idx,
                           entry_idx, hashmap, loaded, printed>>
    /\ UNCHANGED rvars

\* Lines 233-248 for the file at image_idx: the three loads, the asserts on
\* image and label_true, combine_hashmaps and segment_diffusion.
LoadFile ==
    /\ pc = "loop"
    /\ image_idx < nfiles[1]
    /\ \E f \in FileContents :
          LET baselines_hashmap == LoadBaselines(f)
              kmeans_hashmap    == LoadKmeans(f)
              diffusion_hashmap == LoadDiffusion(f)
              images_agree ==
                  /\ baselines_hashmap.image = kmeans_hashmap.image
                  /\ baselines_hashmap.image = diffusion_hashmap.image
              labels_agree ==
                  /\ baselines_hashmap.label_true = kmeans_hashmap.label_true
                  /\ baselines_hashmap.label_true
                         = diffusion_hashmap.label_true
              combined == CombineHashmaps(baselines_hashmap, kmeans_hashmap,
                                          diffusion_hashmap)
          IN  IF ~images_agree \/ ~labels_agree
              THEN /\ Fail
                   /\ loaded' = Append(loaded,
                                       [images_agree |-> images_agree,
                                        labels_agree |-> labels_agree,
                                        handed |-> FALSE])
                   /\ UNCHANGED <<hparams, hashmap, metrics>>
              ELSE IF ~hparams.bound
              THEN /\ Fail
                   /\ hashmap' = combined
                   /\ loaded' = Append(loaded,
                                       [images_agree |-> TRUE,
                                        labels_agree |-> TRUE,
                                        handed |-> FALSE])
                   /\ UNCHANGED <<hparams, metrics>>
              ELSE LET r == SegmentDiffusion(combined, hparams)
                   IN  /\ hashmap' = r.hashmap
                       /\ loaded' = Append(loaded,
                                           [images_agree |-> TRUE,
                                            labels_agree |-> TRUE,
                                            handed |-> r.handed])
                       /\ IF r.raised
                          THEN Fail
                          ELSE /\ pc' = "entries"
                               /\ entry_idx' = 1
                               /\ UNCHANGED <<dataset_name, nfiles, image_idx,
                                              printed>>
                       /\ UNCHANGED <<hparams, metrics>>
    /\ UNCHANGED rvars

\* Lines 250-273 for one entry of entity_tuples. After the last entry the
\* loop of line 232 moves on; hashmap is rebound by line 244 before it is
\* read again, so the binding is dropped here.
AppendEntry ==
    /\ pc = "entries"
    /\ LET t == EntityTuples[entry_idx]
           a == hashmap[t.p1]
           b == hashmap[t.p2]
           raises == IF hparams.is_binary THEN MetricRaises(a, b)
                     ELSE RelabelRaises(b, a)
       IN  IF raises
           THEN /\ Fail
                /\ UNCHANGED <<hparams, hashmap, loaded, metrics>>
           ELSE /\ metrics' = AppendMetrics(metrics, t.entry,
                                            hparams.is_binary, image_idx)
                /\ IF entry_idx < Len(EntityTuples)
                   THEN /\ entry_idx' = entry_idx + 1
                        /\ UNCHANGED <<pc, image_idx, hashmap>>
                   ELSE /\ entry_idx' = 0
                        /\ image_idx' = image_idx + 1
                        /\ hashmap' = <<>>
                        /\ pc' = "loop"
                /\ UNCHANGED <<dataset_name, hparams, nfiles, loaded, printed>>
    /\ UNCHANGED rvars

\* Lines 275-281: hparams.is_binary is read (a NameError when hparams is
\* unbound) and the Dice block is printed for a binary dataset.
PrintDice ==
    /\ pc = "loop"
    /\ image_idx = nfiles[1]
    /\ IF ~hparams.bound
       THEN Fail
       ELSE /\ printed' = IF hparams.is_binary
                          THEN Append(printed, Block("dice"))
                          ELSE printed
            /\ pc' = "ssim"
            /\ UNCHANGED <<dataset_name, nfiles, image_idx, entry_idx>>
    /\ UNCHANGED <<hparams, hashmap, loaded, metrics>>
    /\ UNCHANGED rvars

\* Lines 283-287.
PrintSsim ==
    /\ pc = "ssim"
    /\ printed' = Append(printed, Block("ssim"))
    /\ pc' = "ergas"
    /\ UNCHANGED <<dataset_name, hparams, nfiles, image_idx, entry_idx,
                   hashmap, loaded, metrics>>
    /\ UNCHANGED rvars

\* Lines 289-293.
PrintErgas ==
    /\ pc = "ergas"
    /\ printed' = Append(printed, Block("ergas"))
    /\ pc' = "rmse"
    /\ UNCHANGED <<dataset_name, hparams, nfiles, image_idx, entry_idx,
                   hashmap, loaded, metrics>>
    /\ UNCHANGED rvars

\* Lines 295-299.
PrintRmse ==
    /\ pc = "rmse"
    /\ printed' = Append(printed, Block("rmse"))
    /\ pc' = "done"
    /\ UNCHANGED <<dataset_name, hparams, nfiles, image_idx, entry_idx,
                   hashmap, loaded, metrics>>
    /\ UNCHANGED rvars

\* The dataset names a settings file may carry.
DatasetNames == {"retina", "berkeley", "other"}

\* The driver after the settings are parsed (line 179).
InitDriver ==
    /\ pc = "start"
    /\ dataset_name \in DatasetNames
    /\ hparams = Unbound
    /\ nfiles \in (0..MaxFiles) \X (0..MaxFiles) \X (0..MaxFiles)
    /\ image_idx = 0
    /\ entry_idx = 0
    /\ hashmap = <<>>
    /\ loaded = <<>>
    /\ metrics = <<>>
    /\ printed = <<>>
    /\ RelabelIdle

NextDriver ==
    \/ SelectHparams
    \/ ListFiles
    \/ LoadFile
    \/ AppendEntry
    \/ PrintDice
    \/ PrintSsim
    \/ PrintErgas
    \/ PrintRmse

SpecDriver == InitDriver /\ [][NextDriver]_vars

----------------------------------------------------------------------------
(* Properties of guided_relabel. The pixel counts below are the exact      *)
(* ones, taken over unbounded integers.                                    *)

LabelPred == heap.label_pred
LabelTrue == heap.label_true
Result == heap[ret]

\* The label values present in a map.
Vals(a) == {a.data[k] : k \in DOMAIN a.data}

\* |P-pixels AND T-pixels| and |P-pixels OR T-pixels|, counted in cells: the
\* run length cancels in the quotient of the two.
InterCells(P, T) ==
    Cardinality({k \in DOMAIN LabelPred.data :
                    LabelPred.data[k] = P /\ LabelTrue.data[k] = T})

UnionCells(P, T) ==
    Cardinality({k \in DOMAIN LabelPred.data :
                    LabelPred.data[k] = P \/ LabelTrue.data[k] = T})

\* |P-pixels AND T-pixels|
Inter(P, T) == blk * InterCells(P, T)

PixelCount(a, v) == blk * Cardinality({k \in DOMAIN a.data : a.data[k] = v})

\* T's IOU with P is maximal over all ground-truth labels.
MaximalFor(P, T) ==
    \A T2 \in Vals(LabelTrue) :
        InterCells(P, T) * UnionCells(P, T2)
            >= InterCells(P, T2) * UnionCells(P, T)

\* The smallest ground-truth label of maximal IOU with P.
BestTrue(P) == Min({T \in Vals(LabelTrue) : MaximalFor(P, T)})

\* The row of predicted label P and the column of ground-truth label T.
RowNo(P) == 1 + Cardinality({v \in Vals(LabelPred) : v < P})
ColNo(T) == 1 + Cardinality({v \in Vals(LabelTrue) : v < T})

IsExample == LabelPred = ExamplePred /\ LabelTrue = ExampleTrue

ExampleResult ==
    <<5, 5, 6, 6,  5, 5, 6, 6,  7, 7, 0, 0,  7, 7, 0, 0>>

\* C1: a returned call has rewritten every pixel carrying P to the smallest
\* ground-truth label whose exact IOU with P is maximal; the 4 x 4 scenario
\* maps 1->5, 2->6, 3->7 and 0->0.
C1_MaxIouRelabel ==
    rl_pc = "returned" =>
        /\ \A k \in DOMAIN LabelPred.data :
               Result.data[k] = BestTrue(LabelPred.data[k])
        /\ IsExample => Result.data = ExampleResult

\* C1 restricted to maps whose pixel count fits int16: the matching is the
\* stated one there.
C1_WithinInt16 ==
    (rl_pc = "returned" /\ NumPixels(LabelPred) <= Int16Max) =>
        /\ \A k \in DOMAIN LabelPred.data :
               Result.data[k] = BestTrue(LabelPred.data[k])
        /\ IsExample => Result.data = ExampleResult

\* C2: the output of a returned call has the shape of the predicted map and
\* every pixel of it carries a value that occurs in the ground truth.
C2_OutputDrawnFromTruth ==
    rl_pc = "returned" =>
        /\ Result.shape = LabelPred.shape
        /\ DOMAIN Result.data = DOMAIN LabelPred.data
        /\ \A k \in DOMAIN Result.data : Result.data[k] \in Vals(LabelTrue)

\* A returned call whose predicted map holds label 0 while the ground truth
\* does not, and whose predicted map holds a label absent from the truth.
C2_Witness ==
    /\ rl_pc = "returned"
    /\ 0 \in Vals(LabelPred)
    /\ 0 \notin Vals(LabelTrue)
    /\ Vals(LabelPred) \ Vals(LabelTrue) # {0}

\* C3: relabelling a map that is not all zeros against itself returns it.
C3_SelfRelabelIdentity ==
    (/\ rl_pc = "returned"
     /\ LabelTrue = LabelPred
     /\ Vals(LabelPred) # {0}) => Result.data = LabelPred.data

\* C3 restricted to maps whose pixel count fits int16.
C3_WithinInt16 ==
    (/\ rl_pc = "returned"
     /\ LabelTrue = LabelPred
     /\ NumPixels(LabelPred) <= Int16Max
     /\ Vals(LabelPred) # {0}) => Result.data = LabelPred.data

\* C4: every entry of the IOU matrix lies in [0, 1], and the union
\* denominator equals |A| + |B| - intersection and is at least 1.
C4_IouInUnitRange ==
    rl_pc = "returned" =>
        \A P \in Vals(LabelPred) : \A T \in Vals(LabelTrue) :
            LET i == intersection_matrix[RowNo(P)][ColNo(T)]
                u == union_matrix[RowNo(P)][ColNo(T)]
            IN  /\ u >= 1
                /\ 0 <= i /\ i <= u
                /\ u = PixelCount(LabelPred, P) + PixelCount(LabelTrue, T)
                          - Inter(P, T)

\* C4 restricted to maps whose pixel count fits int16.
C4_WithinInt16 ==
    (rl_pc = "returned" /\ NumPixels(LabelPred) <= Int16Max) =>
        \A P \in Vals(LabelPred) : \A T \in Vals(LabelTrue) :
            LET i == intersection_matrix[RowNo(P)][ColNo(T)]
                u == union_matrix[RowNo(P)][ColNo(T)]
            IN  /\ u >= 1
                /\ 0 <= i /\ i <= u
                /\ u = PixelCount(LabelPred, P) + PixelCount(LabelTrue, T)
                          - Inter(P, T)

\* C5 as stated: label 0 has no IOU row and no IOU column, and no pixel with
\* a non-zero predicted label is rewritten to 0.
C5_ZeroExcluded ==
    rl_pc = "returned" =>
        /\ Len(intersection_matrix) = Cardinality(Vals(LabelPred) \ {0})
        /\ \A r \in DOMAIN intersection_matrix :
               Len(intersection_matrix[r]) = Cardinality(Vals(LabelTrue) \ {0})
        /\ \A k \in DOMAIN LabelPred.data :
               LabelPred.data[k] # 0 => Result.data[k] # 0

\* Column c holds the maximum of row r of the computed IOU matrix.
RowMaxAt(r, c) ==
    \A d \in DOMAIN intersection_matrix[r] :
        ~QuotLess(intersection_matrix[r][c], union_matrix[r][c],
                  intersection_matrix[r][d], union_matrix[r][d])

\* C5 amended: label 0 is matched like every other label. There is one IOU
\* row per distinct predicted label and one IOU column per distinct
\* ground-truth label, 0 included, and a pixel with a non-zero predicted
\* label is rewritten to 0 exactly when ground-truth label 0 is the first
\* column holding the maximum of its label's row of the computed matrix.
C5_ZeroMatchedLikeAnyLabel ==
    rl_pc = "returned" =>
        /\ Len(intersection_matrix) = Cardinality(Vals(LabelPred))
        /\ \A r \in DOMAIN intersection_matrix :
               Len(intersection_matrix[r]) = Cardinality(Vals(LabelTrue))
        /\ \A k \in DOMAIN LabelPred.data :
               LabelPred.data[k] # 0 =>
                   (Result.data[k] = 0 <=>
                       /\ 0 \in Vals(LabelTrue)
                       /\ RowMaxAt(RowNo(LabelPred.data[k]), ColNo(0))
                       /\ \A c \in 1..(ColNo(0) - 1) :
                              ~RowMaxAt(RowNo(LabelPred.data[k]), c))

\* A returned call in which label 0 occurs on both sides and a pixel with a
\* non-zero predicted label has been rewritten to 0.
C5_Witness ==
    /\ rl_pc = "returned"
    /\ 0 \in Vals(LabelPred)
    /\ 0 \in Vals(LabelTrue)
    /\ \E k \in DOMAIN LabelPred.data :
           LabelPred.data[k] # 0 /\ Result.data[k] = 0

\* C9: no step of a call changes either input map; a returning call hands
\* back an array that did not exist before the call and is neither input;
\* a call with differing shapes raises and produces no result.
C9_Pure ==
    [][/\ heap'.label_pred = heap.label_pred
       /\ heap'.label_true = heap.label_true
       /\ (rl_pc = "call" /\ rl_pc' = "returned") =>
              /\ ret' \notin {"label_pred", "label_true"}
              /\ heap[ret'] = NoArray
              /\ heap'[ret'] # NoArray
       /\ (rl_pc = "call" /\ heap.label_pred.shape # heap.label_true.shape) =>
              /\ rl_pc' = "raised"
              /\ ret' = "None"
              /\ heap' = heap]_vars

\* A returned call whose result differs from the predicted map: the labels
\* were rewritten, and not in the predicted map.
C9_Witness ==
    /\ rl_pc = "returned"
    /\ ret = "renumbered_label_pred"
    /\ Result.data # LabelPred.data
    /\ LabelPred.data # [k \in DOMAIN LabelPred.data |-> 0]

----------------------------------------------------------------------------
(* Properties of the batch driver.                                         *)

Recognized == dataset_name \in {"retina", "berkeley"}

CountsEqual == nfiles[1] = nfiles[2] /\ nfiles[1] = nfiles[3]

\* Every file loaded so far had the same image and the same ground truth in
\* its three archives.
AllAgree ==
    \A i \in DOMAIN loaded : loaded[i].images_agree /\ loaded[i].labels_agree

\* The run is at or past the printing of a summary block.
Printing == printed # <<>> \/ pc \in {"ssim", "ergas", "rmse", "done"}

\* C6: printing is reached only with a recognized dataset name, equal file
\* counts and every file index loaded with agreeing archives; a failed run
\* has printed nothing, no run that misses a condition completes, and a run
\* stops only completed or failed.
C6_AllOrNothing ==
    /\ Printing => /\ Recognized
                   /\ CountsEqual
                   /\ Len(loaded) = nfiles[1]
                   /\ AllAgree
    /\ pc = "failed" => printed = <<>>
    /\ (~Recognized \/ ~CountsEqual \/ ~AllAgree) =>
           pc # "done" /\ printed = <<>>
    /\ ~(ENABLED NextDriver) => pc \in {"done", "failed"}

\* The run with an unrecognized dataset name and no input files has failed
\* at the read of hparams, past the empty loop.
C6_Witness ==
    /\ pc = "failed"
    /\ dataset_name = "other"
    /\ nfiles = <<0, 0, 0>>
    /\ metrics = EmptyMetrics
    /\ printed = <<>>

\* segment_diffusion has been called on the current file's hashmap.
SegCalled == hashmap # <<>> /\ hparams.bound

StackShape == hashmap.labels_diffusion.shape
TrueShape == hashmap.label_true.shape
Handed == loaded[Len(loaded)].handed
Written ==
    "seg_diffusion" \in DOMAIN hashmap \/ "label_diffusion" \in DOMAIN hashmap

\* C7 as stated: the extractor gets the stack only when every slice has
\* exactly the dimensions (H, W) of the ground truth, and every other stack
\* makes the reshape raise with no entry written.
C7_ExactDimsRequired ==
    SegCalled =>
        /\ Handed => Tail(StackShape) = TrueShape
        /\ Tail(StackShape) # TrueShape =>
               pc = "failed" /\ ~Handed /\ ~Written

\* C7 amended: the extractor gets the stack exactly when the stack's element
\* count is B * H * W, B being its first dimension, whatever its other
\* dimensions are; every other stack makes the reshape raise, and no
\* 'seg_diffusion' or 'label_diffusion' entry is written.
C7_ElementCountRequired ==
    SegCalled =>
        /\ Handed <=>
               Prod(StackShape) = StackShape[1] * TrueShape[1] * TrueShape[2]
        /\ Prod(StackShape) # StackShape[1] * TrueShape[1] * TrueShape[2] =>
               pc = "failed" /\ ~Written
        /\ Written => Handed

\* A non-empty stack of flattened slices over a map of more than one row was
\* handed to the extractor and both entries were written.
C7_Witness ==
    /\ SegCalled
    /\ Handed
    /\ Written
    /\ StackShape[1] >= 1
    /\ Len(StackShape) = 2
    /\ TrueShape[1] > 1

PrintedMetrics == [i \in DOMAIN printed |-> printed[i].metric]

FixedOrder ==
    <<"random", "watershed", "felzenszwalb", "ours (kmeans, multiclass)",
      "ours (kmeans, binary)", "ours (diffusion, multiclass)",
      "ours (diffusion, binary)">>

\* The values of files 0 .. k - 1, in file order.
FirstFiles(k) == [i \in 1..k |-> i - 1]

\* A block lists the 7 entries in the fixed order, each over every file.
BlockComplete(b) ==
    /\ [i \in DOMAIN b.lines |-> b.lines[i].entry] = FixedOrder
    /\ \A i \in DOMAIN b.lines : b.lines[i].over = FirstFiles(nfiles[1])

\* C8 as stated: a completed run has printed the Dice, SSIM, ERGAS and RMSE
\* blocks in that order, in both dataset modes, each block complete.
C8_FourBlocksAlways ==
    pc = "done" =>
        /\ PrintedMetrics = <<"dice", "ssim", "ergas", "rmse">>
        /\ \A i \in DOMAIN printed : BlockComplete(printed[i])

\* C8 amended: a completed run on a binary dataset has printed the Dice,
\* SSIM, ERGAS and RMSE blocks in that order; on a multi-class dataset it has
\* printed the SSIM, ERGAS and RMSE blocks only. Every printed block lists
\* the 7 entries in the fixed order, each over every processed file.
C8_DiceOnlyWhenBinary ==
    pc = "done" =>
        /\ PrintedMetrics = IF hparams.is_binary
                            THEN <<"dice", "ssim", "ergas", "rmse">>
                            ELSE <<"ssim", "ergas", "rmse">>
        /\ \A i \in DOMAIN printed : BlockComplete(printed[i])

\* A completed multi-class run over at least one file.
C8_Witness ==
    /\ pc = "done"
    /\ ~hparams.is_binary
    /\ nfiles[1] >= 1
    /\ Len(printed) = 3

IsPrefix(s, t) == Len(s) <= Len(t) /\ \A i \in DOMAIN s : s[i] = t[i]

IsBinary == hparams.bound /\ hparams.is_binary

\* Between two files, and after the last, every accumulator of ssim, ergas
\* and rmse holds the values of the files finished so far in file order, and
\* every accumulator of dice holds them for a binary dataset and is empty
\* otherwise; inside a file the entries already visited hold one more.
AccumulatorsInStep ==
    metrics # <<>> =>
        \A m \in MetricNames : \A i \in DOMAIN EntityTuples :
            LET acc  == metrics[m][EntityTuples[i].entry]
                done == IF pc \in {"entries", "failed"} /\ i < entry_idx
                        THEN image_idx + 1 ELSE image_idx
            IN  IF m = "dice" /\ ~IsBinary
                THEN acc = <<>>
                ELSE acc = FirstFiles(done)

\* The accumulators are read only once every file has been processed.
ReadAtEndOnly ==
    Printing => image_idx = nfiles[1] /\ Len(loaded) = nfiles[1]

\* A step appends to the accumulators or leaves them alone, and moves to the
\* next file index or stays.
AppendOnlyStep ==
    /\ metrics # <<>> =>
           \A m \in MetricNames : \A e \in EntryNames :
               IsPrefix(metrics[m][e], metrics'[m][e])
    /\ image_idx' \in {image_idx, image_idx + 1}

\* C10: files are processed one after another in index order; after k files
\* every ssim, ergas and rmse accumulator holds the k values of files
\* 0 .. k - 1 in order, every dice accumulator holds them for a binary
\* dataset and nothing otherwise; no appended value is changed or removed,
\* and no accumulator is read before the last file has been processed.
C10_AppendOnlyAccumulators ==
    /\ [](AccumulatorsInStep /\ ReadAtEndOnly)
    /\ [][AppendOnlyStep]_vars

\* Two files of a multi-class dataset are finished: the dice accumulators
\* are empty and the others hold two values.
C10_Witness ==
    /\ pc = "loop"
    /\ image_idx = 2
    /\ ~hparams.is_binary
    /\ metrics["ssim"]["random"] = <<0, 1>>
    /\ metrics["dice"]["random"] = <<>>

====
